---- MODULE Spec2Model ----
(***************************************************************************)
(* ResponseCache (response-cache.js): a bounded in-memory memoization      *)
(* cache with LRU eviction, lazy TTL expiry, hit/miss/set counters and an  *)
(* export/import snapshot.                                                 *)
(*                                                                         *)
(* Strings are sequences of ASCII character codes.  A base64 string is a   *)
(* sequence of indices into the base64 alphabet (0..63), 64 being '='.     *)
(* The JavaScript Map is a sequence of slots in insertion order, because   *)
(* evictLRU and export observe the iteration order of the Map.             *)
(* Date.now() is a non-decreasing millisecond clock: every read returns a  *)
(* value at least as large as the previous read.                           *)
(***************************************************************************)
EXTENDS Integers, Sequences, FiniteSets, TLC

VARIABLES
    cache,       \* this.cache: sequence of slots [key, response, createdAt, ...]
    stats,       \* this.stats: [hits, misses, sets, clears]
    defaultTTL,  \* this.defaultTTL
    maxSize,     \* this.maxSize
    now,         \* the value of the last Date.now() read
    ret,         \* the last call: [op, prompt, model, ..., result]
    calls,       \* the caller's own tally of what the calls returned
    snapshot,    \* the last object returned by export(), or None
    hist,        \* the calls made so far, in the scripted specifications
    kin,         \* the arguments drawn for a function checked on its own
                 \* (generateKey, optimizeForCaching, classifyComplexity,
                 \* calculateCost)
    kout         \* the values returned for kin, in order

vars == <<cache, stats, defaultTTL, maxSize, now, ret, calls, snapshot, hist, kin, kout>>

\* An optional value: None is JavaScript null / undefined / an omitted
\* argument, Some(x) is the value x.
None == << >>
Some(x) == <<x>>

Range(f) == {f[x] : x \in DOMAIN f}
Min(a, b) == IF a <= b THEN a ELSE b
Max(a, b) == IF a >= b THEN a ELSE b

-----------------------------------------------------------------------------
(* Bounds of the model *)

MaxTime == 2       \* the clock runs over 0..MaxTime
MaxCalls == 3      \* at most this many calls are made on one cache
MaxCapacity == 2   \* options.maxSize is drawn from 1..MaxCapacity
PrefixLen == 40    \* length of the common prefix of the two long prompts

-----------------------------------------------------------------------------
(* Strings *)

Rep(n, c) == [i \in 1..n |-> c]

chColon == 58
chComma == 44
chQuote == 34
chLBrace == 123
chRBrace == 125
chDigit0 == 48

\* 'haiku-4-5'
strHaiku == <<104, 97, 105, 107, 117, 45, 52, 45, 53>>
\* 'opus'
strOpus == <<111, 112, 117, 115>>
strA == <<65>>
strB == <<66>>
strC == <<67>>
strD == <<68>>
\* 'a', 'a:b', 'b:c', 'c'
strLa == <<97>>
strLaColonB == <<97, 58, 98>>
strLbColonC == <<98, 58, 99>>
strLc == <<99>>
\* two prompts that share their first PrefixLen characters
strLong1 == Rep(PrefixLen, 113) \o <<49>>
strLong2 == Rep(PrefixLen, 113) \o <<50>>

\* A plain object is a sequence of [name, value] properties in insertion order,
\* every value a single decimal digit.
objEmpty == << >>
objA1 == << [name |-> strLa, value |-> 1] >>
objA2 == << [name |-> strLa, value |-> 2] >>

RECURSIVE JoinProps(_)
JoinProps(o) ==
    IF o = << >> THEN << >>
    ELSE LET p == <<chQuote>> \o o[1].name \o <<chQuote, chColon, chDigit0 + o[1].value>>
         IN IF Len(o) = 1 THEN p ELSE p \o <<chComma>> \o JoinProps(Tail(o))

\* JSON.stringify of a plain object
JSONstringify(o) == <<chLBrace>> \o JoinProps(o) \o <<chRBrace>>

-----------------------------------------------------------------------------
(* Buffer.from(s).toString('base64') *)

b64Pad == 64

ByteAt(b, i) == IF i <= Len(b) THEN b[i] ELSE 0

Base64Char(b, j) ==
    LET g == (j - 1) \div 4
        r == (j - 1) % 4
        b1 == ByteAt(b, 3 * g + 1)
        b2 == ByteAt(b, 3 * g + 2)
        b3 == ByteAt(b, 3 * g + 3)
    IN CASE r = 0 -> b1 \div 4
         [] r = 1 -> (b1 % 4) * 16 + (b2 \div 16)
         [] r = 2 -> IF 3 * g + 2 > Len(b) THEN b64Pad ELSE (b2 % 16) * 4 + (b3 \div 64)
         [] r = 3 -> IF 3 * g + 3 > Len(b) THEN b64Pad ELSE b3 % 64

toBase64(b) == [j \in 1..(4 * ((Len(b) + 2) \div 3)) |-> Base64Char(b, j)]

\* String.prototype.substring(0, n)
substring0(s, n) == SubSeq(s, 1, Min(n, Len(s)))

keyLength == 64

\* a parameter with a default value takes it when the argument is undefined
Default(arg, dflt) == IF arg = None THEN dflt ELSE arg[1]

generateKey(prompt, model, options) ==
    LET key == Default(model, strHaiku) \o <<chColon>> \o prompt \o <<chColon>>
               \o JSONstringify(Default(options, objEmpty))
    IN substring0(toBase64(key), keyLength)

\* the (prompt, model) pairs the callers ask about
AllTargets ==
    {<<p, None>> : p \in {strLong1, strLong2, strA, strB, strC, strD}}
        \cup {<<strA, Some(strOpus)>>}

\* this.generateKey(prompt, model) as get and set call it, tabulated over the
\* callers' arguments (set passes its model argument with the default applied)
TargetKeys ==
    [t \in AllTargets \cup {<<u[1], Some(Default(u[2], strHaiku))>> : u \in AllTargets} |->
        generateKey(t[1], t[2], None)]

-----------------------------------------------------------------------------
(* The Map this.cache, as a sequence of slots in insertion order *)

MapKeys(c) == {c[i].key : i \in 1..Len(c)}
MapHas(c, k) == k \in MapKeys(c)
MapIndex(c, k) == CHOOSE i \in 1..Len(c) : c[i].key = k
MapGet(c, k) == c[MapIndex(c, k)]

\* Map.prototype.delete
MapDelete(c, k) ==
    IF MapHas(c, k)
    THEN LET i == MapIndex(c, k) IN SubSeq(c, 1, i - 1) \o SubSeq(c, i + 1, Len(c))
    ELSE c

\* Map.prototype.set: a present key keeps its position, a new key goes last
MapSet(c, slot) ==
    IF MapHas(c, slot.key)
    THEN [c EXCEPT ![MapIndex(c, slot.key)] = slot]
    ELSE Append(c, slot)

-----------------------------------------------------------------------------
(* Date.now() *)

\* the clock values n successive reads of one call can return: the first read
\* returns now, later reads never go back, and the clock ticks at most once
\* while the call runs
ReadSeqs(n) ==
    {s \in [1..n -> now..Min(MaxTime, now + 1)] :
        /\ n > 0 => s[1] = now
        /\ \A i \in 1..(n - 1) : s[i] <= s[i + 1]}

-----------------------------------------------------------------------------
(* The constructor *)

defaultTTLms == 3600000
defaultMaxSize == 1000

\* a || b on an optional number: null, undefined and 0 are falsy
OrElse(a, b) == IF a = None \/ a[1] = 0 THEN b ELSE a[1]

Ret(op, prompt, model, arg, result) ==
    [op |-> op, prompt |-> prompt, model |-> model, arg |-> arg, result |-> result]

Construct(options) ==
    /\ cache = << >>
    /\ stats = [hits |-> 0, misses |-> 0, sets |-> 0, clears |-> 0]
    /\ defaultTTL = OrElse(options.ttl, defaultTTLms)
    /\ maxSize = OrElse(options.maxSize, defaultMaxSize)

-----------------------------------------------------------------------------
(* evictLRU *)

\* mutant of lruScan: <= for <, so that the last of the entries that share
\* the minimum is chosen
RECURSIVE lruScanLastOfTies(_, _, _, _)
lruScanLastOfTies(c, i, lruKey, lruTime) ==
    IF i > Len(c) THEN lruKey
    ELSE IF lruTime = None \/ c[i].lastAccessed <= lruTime[1]
         THEN lruScanLastOfTies(c, i + 1, Some(c[i].key), Some(c[i].lastAccessed))
         ELSE lruScanLastOfTies(c, i + 1, lruKey, lruTime)

\* mutant of lruScan: the first key in Map order is chosen, whatever its
\* lastAccessed
lruScanFirstKey(c, i, lruKey, lruTime) ==
    IF c = << >> THEN lruKey ELSE Some(c[1].key)

\* mutant of lruScan: an expired entry is chosen before any fresh one
lruScanExpiredFirst(c, i, lruKey, lruTime) ==
    IF c = << >> THEN lruKey
    ELSE IF \E j \in 1..Len(c) : now > c[j].expiresAt
         THEN Some(c[CHOOSE j \in 1..Len(c) : now > c[j].expiresAt].key)
         ELSE Some(c[CHOOSE j \in 1..Len(c) :
                        /\ \A k \in 1..Len(c) : c[j].lastAccessed <= c[k].lastAccessed
                        /\ \A k \in 1..(j - 1) : c[k].lastAccessed > c[j].lastAccessed].key)

\* the loop of evictLRU from slot i on; lruTime = None is Infinity
RECURSIVE lruScan(_, _, _, _)
lruScan(c, i, lruKey, lruTime) ==
    IF i > Len(c) THEN lruKey
    ELSE IF lruTime = None \/ c[i].lastAccessed < lruTime[1]
         THEN lruScan(c, i + 1, Some(c[i].key), Some(c[i].lastAccessed))
         ELSE lruScan(c, i + 1, lruKey, lruTime)

\* mutant of evictLRU: the chosen entry is not deleted
evictLRUKeepsAll(c) == c

\* if (lruKey): null and the empty string are falsy
evictLRU(c) ==
    LET lruKey == lruScan(c, 1, None, None)
    IN IF lruKey # None /\ lruKey[1] # << >> THEN MapDelete(c, lruKey[1]) ELSE c

-----------------------------------------------------------------------------
(* get, set, clear *)

\* mutants of isExpired: the boundary instant counted as expired, and the
\* comparison reversed
isExpiredAtBoundary(t, entry) == t >= entry.expiresAt
isExpiredReversed(t, entry) == t < entry.expiresAt

\* Date.now() > entry.expiresAt
isExpired(t, entry) == t > entry.expiresAt

\* mutant of recordSet: the increment forgotten
recordSetForgotten(st) == st

\* mutant of recordHit: the hit counted as a miss too
recordHitAndMiss(st) == [st EXCEPT !.hits = @ + 1, !.misses = @ + 1]

\* this.stats.hits++, this.stats.misses++, this.stats.sets++
recordHit(st) == [st EXCEPT !.hits = @ + 1]
recordMiss(st) == [st EXCEPT !.misses = @ + 1]
recordSet(st) == [st EXCEPT !.sets = @ + 1]

\* mutant of Get: a hit that does not count the access
GetForgetsAccessCount(prompt, model) ==
    LET key == TargetKeys[<<prompt, model>>]
    IN IF ~MapHas(cache, key) \/ isExpired(now, MapGet(cache, key))
       THEN /\ cache' = MapDelete(cache, key)
            /\ stats' = recordMiss(stats)
            /\ ret' = Ret("get", prompt, model, << >>, None)
            /\ UNCHANGED now
       ELSE /\ stats' = recordHit(stats)
            /\ cache' = MapSet(cache, [MapGet(cache, key) EXCEPT !.lastAccessed = now])
            /\ ret' = Ret("get", prompt, model, << >>, Some(MapGet(cache, key).response))
            /\ UNCHANGED now

Get(prompt, model) ==
    LET key == TargetKeys[<<prompt, model>>]
    IN IF ~MapHas(cache, key)
       THEN /\ stats' = recordMiss(stats)
            /\ ret' = Ret("get", prompt, model, << >>, None)
            /\ UNCHANGED <<cache, now>>
       ELSE LET entry == MapGet(cache, key)
            IN IF isExpired(now, entry)
               THEN /\ cache' = MapDelete(cache, key)
                    /\ stats' = recordMiss(stats)
                    /\ ret' = Ret("get", prompt, model, << >>, None)
                    /\ UNCHANGED now
               ELSE \E ts \in ReadSeqs(2) :
                    /\ stats' = recordHit(stats)
                    /\ cache' = MapSet(cache, [entry EXCEPT !.lastAccessed = ts[2],
                                                            !.accessCount = @ + 1])
                    /\ now' = ts[2]
                    /\ ret' = Ret("get", prompt, model, << >>, Some(entry.response))

\* mutant of atCapacity: the comparison strict
atCapacityStrict(c) == Len(c) > maxSize

\* mutant of atCapacity: the store counted as full only at exactly maxSize
atCapacityExactly(c) == Len(c) = maxSize

\* this.cache.size >= this.maxSize
atCapacity(c) == Len(c) >= maxSize

Set(prompt, response, modelArg, ttl) ==
    LET model == Default(modelArg, strHaiku)
        c1 == IF atCapacity(cache) THEN evictLRU(cache) ELSE cache
        key == TargetKeys[<<prompt, Some(model)>>]
    IN \E ts \in ReadSeqs(3) :
        /\ cache' = MapSet(c1, [key |-> key,
                                response |-> response,
                                createdAt |-> ts[2],
                                expiresAt |-> ts[1] + OrElse(ttl, defaultTTL),
                                lastAccessed |-> ts[3],
                                accessCount |-> 0,
                                model |-> model,
                                promptLength |-> Len(prompt),
                                responseLength |-> Len(JSONstringify(response))])
        /\ stats' = recordSet(stats)
        /\ now' = ts[3]
        /\ ret' = Ret("set", prompt, modelArg, [response |-> response, ttl |-> ttl], None)

\* mutant of Clear: the counters reset with the store
ClearResetsStats ==
    /\ cache' = << >>
    /\ stats' = [hits |-> 0, misses |-> 0, sets |-> 0, clears |-> stats.clears + 1]
    /\ ret' = Ret("clear", << >>, None, << >>, None)
    /\ UNCHANGED now

Clear ==
    /\ cache' = << >>
    /\ stats' = [stats EXCEPT !.clears = @ + 1]
    /\ ret' = Ret("clear", << >>, None, << >>, None)
    /\ UNCHANGED now

-----------------------------------------------------------------------------
(* getStats, getMetadata *)

RECURSIVE SumField(_, _)
SumField(c, f) == IF c = << >> THEN 0 ELSE f[Head(c)] + SumField(Tail(c), f)

\* (x / y * 100).toFixed(2), as a number of hundredths of a percent
toFixed2Percent(x, y) == (2 * x * 10000 + y) \div (2 * y)

getStats(c, st) ==
    LET totalRequests == st.hits + st.misses
        totalPromptSize == SumField(c, [e \in Range(c) |-> e.promptLength])
        totalResponseSize == SumField(c, [e \in Range(c) |-> e.responseLength])
    IN [hits |-> st.hits,
        misses |-> st.misses,
        hitRate |-> IF totalRequests > 0 THEN toFixed2Percent(st.hits, totalRequests) ELSE 0,
        sets |-> st.sets,
        size |-> Len(c),
        maxSize |-> maxSize,
        totalBytes |-> totalPromptSize + totalResponseSize,
        promptBytes |-> totalPromptSize,
        responseBytes |-> totalResponseSize,
        estimatedSavings |-> st.hits * 90]

\* mutant of GetMetadata: the inspection counted as an access of the entry,
\* or as a miss
GetMetadataCountsAccess(prompt, model) ==
    LET key == TargetKeys[<<prompt, model>>]
    IN IF ~MapHas(cache, key)
       THEN /\ stats' = recordMiss(stats)
            /\ ret' = Ret("getMetadata", prompt, model, << >>, None)
            /\ UNCHANGED <<cache, now>>
       ELSE LET entry == MapGet(cache, key)
            IN /\ cache' = MapSet(cache, [entry EXCEPT !.accessCount = @ + 1])
               /\ ret' = Ret("getMetadata", prompt, model, << >>,
                             Some([exists |-> TRUE,
                                   expiresIn |-> Max(0, entry.expiresAt - now),
                                   accessCount |-> entry.accessCount,
                                   age |-> now - entry.createdAt,
                                   model |-> entry.model,
                                   sizes |-> [prompt |-> entry.promptLength,
                                              response |-> entry.responseLength]]))
               /\ UNCHANGED <<stats, now>>

GetMetadata(prompt, model) ==
    LET key == TargetKeys[<<prompt, model>>]
    IN /\ UNCHANGED <<cache, stats>>
       /\ IF ~MapHas(cache, key)
          THEN /\ ret' = Ret("getMetadata", prompt, model, << >>, None)
               /\ UNCHANGED now
          ELSE LET entry == MapGet(cache, key)
               IN \E ts \in ReadSeqs(2) :
                   /\ now' = ts[2]
                   /\ ret' = Ret("getMetadata", prompt, model, << >>,
                                 Some([exists |-> TRUE,
                                       expiresIn |-> Max(0, entry.expiresAt - ts[1]),
                                       accessCount |-> entry.accessCount,
                                       age |-> ts[2] - entry.createdAt,
                                       model |-> entry.model,
                                       sizes |-> [prompt |-> entry.promptLength,
                                                  response |-> entry.responseLength]]))

-----------------------------------------------------------------------------
(* export, import *)

snapshotVersion == 1

\* mutant of exportLoop: every resident entry is exported, expired or not
exportLoopAll(c, ts, i) == c

\* the loop of export from slot i on: ts[i] is the clock read for slot i
RECURSIVE exportLoop(_, _, _)
exportLoop(c, ts, i) ==
    IF i > Len(c) THEN << >>
    ELSE IF ts[i] <= c[i].expiresAt
         THEN <<c[i]>> \o exportLoop(c, ts, i + 1)
         ELSE exportLoop(c, ts, i + 1)

Export ==
    \E ts \in ReadSeqs(Len(cache) + 1) :
        /\ snapshot' = Some([version |-> snapshotVersion,
                             exportedAt |-> ts[Len(cache) + 1],
                             entries |-> exportLoop(cache, ts, 1),
                             stats |-> getStats(cache, stats)])
        /\ now' = ts[Len(cache) + 1]
        /\ ret' = Ret("export", << >>, None, << >>, None)
        /\ UNCHANGED <<cache, stats>>

\* mutants of importLoop: the entries counted but not inserted, and the
\* boundary instant now = expiresAt counted as expired
importLoopCountsOnly(c, entries, ts, i, imported) ==
    [cache |-> c, imported |-> Len(entries)]

RECURSIVE importLoopStrict(_, _, _, _, _)
importLoopStrict(c, entries, ts, i, imported) ==
    IF i > Len(entries) THEN [cache |-> c, imported |-> imported]
    ELSE IF ts[i] < entries[i].expiresAt
         THEN importLoopStrict(MapSet(c, entries[i]), entries, ts, i + 1, imported + 1)
         ELSE importLoopStrict(c, entries, ts, i + 1, imported)

RECURSIVE importLoopKeepsResident(_, _, _, _, _)
\* mutant of importLoop: a snapshot entry whose key is resident is not applied
importLoopKeepsResident(c, entries, ts, i, imported) ==
    IF i > Len(entries) THEN [cache |-> c, imported |-> imported]
    ELSE IF ts[i] <= entries[i].expiresAt /\ ~MapHas(c, entries[i].key)
         THEN importLoopKeepsResident(MapSet(c, entries[i]), entries, ts, i + 1, imported + 1)
         ELSE importLoopKeepsResident(c, entries, ts, i + 1, imported)

\* the forEach of import from entry i on: [cache, imported]
RECURSIVE importLoop(_, _, _, _, _)
importLoop(c, entries, ts, i, imported) ==
    IF i > Len(entries) THEN [cache |-> c, imported |-> imported]
    ELSE IF ts[i] <= entries[i].expiresAt
         THEN importLoop(MapSet(c, entries[i]), entries, ts, i + 1, imported + 1)
         ELSE importLoop(c, entries, ts, i + 1, imported)

Import(data) ==
    IF data.version # snapshotVersion
    THEN /\ ret' = Ret("import", << >>, None, [version |-> data.version], None)
         /\ UNCHANGED <<cache, stats, now>>
    ELSE \E ts \in ReadSeqs(Len(data.entries)) :
         LET done == importLoop(cache, data.entries, ts, 1, 0)
         IN /\ cache' = done.cache
            /\ now' = IF ts = << >> THEN now ELSE ts[Len(ts)]
            /\ ret' = Ret("import", << >>, None, [version |-> data.version],
                          Some([imported |-> done.imported,
                                skipped |-> Len(data.entries) - done.imported]))
            /\ UNCHANGED stats

\* time passes between two calls
Tick ==
    /\ now < MaxTime
    /\ now' = now + 1
    /\ ret' = Ret("tick", << >>, None, << >>, None)
    /\ UNCHANGED <<cache, stats>>

-----------------------------------------------------------------------------
(* The caller *)

Targets == {<<strLong1, None>>, <<strLong2, None>>, <<strA, Some(strOpus)>>}
Responses == {objA1, objA2}
ConstructorOptions ==
    [ttl : {None}, maxSize : {Some(n) : n \in 1..MaxCapacity}]

\* the caller counts the call it just made by what it returned
Tally(op) ==
    calls' = [calls EXCEPT
                !.n = @ + 1,
                !.hits = @ + IF op = "get" /\ ret'.result # None THEN 1 ELSE 0,
                !.misses = @ + IF op = "get" /\ ret'.result = None THEN 1 ELSE 0,
                !.sets = @ + IF op = "set" THEN 1 ELSE 0,
                !.imports = @ + IF op = "import" THEN 1 ELSE 0]

\* the key get, set and getMetadata compute for the call r
CallKey(r) == TargetKeys[<<r.prompt, r.model>>]

\* the caller logs the call it just made: the clock value at which it made it
\* and, for a get or a set, what the Map holds for the call's key afterwards
Log ==
    hist' = Append(hist,
               [call |-> ret',
                at |-> now,
                slot |-> IF ret'.op \in {"get", "set"} /\ MapHas(cache', CallKey(ret'))
                         THEN Some(MapGet(cache', CallKey(ret')))
                         ELSE None])

GetCall(T) ==
    /\ \E t \in T : Get(t[1], t[2])
    /\ Tally("get")
    /\ UNCHANGED <<defaultTTL, maxSize, snapshot>>

SetCall(T, R, L) ==
    /\ \E t \in T, r \in R, ttl \in L : Set(t[1], r, t[2], ttl)
    /\ Tally("set")
    /\ UNCHANGED <<defaultTTL, maxSize, snapshot>>

ClearCall ==
    /\ Clear
    /\ Tally("clear")
    /\ UNCHANGED <<defaultTTL, maxSize, snapshot>>

GetMetadataCall(T) ==
    /\ \E t \in T : GetMetadata(t[1], t[2])
    /\ Tally("getMetadata")
    /\ UNCHANGED <<defaultTTL, maxSize, snapshot>>

ExportCall ==
    /\ Export
    /\ Tally("export")
    /\ UNCHANGED <<defaultTTL, maxSize>>

ImportCall(V) ==
    /\ snapshot # None
    /\ \E v \in V : Import([snapshot[1] EXCEPT !.version = v])
    /\ Tally("import")
    /\ UNCHANGED <<defaultTTL, maxSize, snapshot>>

TickStep ==
    /\ Tick
    /\ UNCHANGED <<defaultTTL, maxSize, snapshot, calls>>

InitCaller ==
    /\ now = 0
    /\ ret = Ret("new", << >>, None, << >>, None)
    /\ calls = [n |-> 0, hits |-> 0, misses |-> 0, sets |-> 0, imports |-> 0]
    /\ snapshot = None
    /\ hist = << >>
    /\ kin = << >>
    /\ kout = << >>

Init ==
    /\ \E options \in ConstructorOptions : Construct(options)
    /\ InitCaller

\* every operation of the cache, in any order
Next ==
    /\ \/ /\ calls.n < MaxCalls
          /\ \/ GetCall(Targets)
             \/ SetCall(Targets, Responses, {None, Some(1)})
             \/ ClearCall
             \/ GetMetadataCall(Targets)
             \/ ExportCall
             \/ ImportCall({snapshotVersion, snapshotVersion + 1})
       \/ TickStep
    /\ UNCHANGED <<hist, kin, kout>>

Spec == Init /\ [][Next]_vars

\* what get(prompt, model) would return at clock value t from the Map c
Lookup(c, t, target) ==
    IF MapHas(c, TargetKeys[target]) /\ ~isExpired(t, MapGet(c, TargetKeys[target]))
    THEN Some(MapGet(c, TargetKeys[target]).response)
    ELSE None

\* the prompt and the model (default applied) of a target or of a call
Effective(prompt, model) == <<prompt, Default(model, strHaiku)>>

\* C10: hits equals the number of get calls that returned a value, misses the
\* number of get calls that returned absent, sets the number of set calls,
\* and the reported hit rate is zero when hits + misses = 0.
C10_StatsAccounting ==
    LET s == getStats(cache, stats)
    IN /\ s.hits = calls.hits
       /\ s.misses = calls.misses
       /\ s.sets = calls.sets
       /\ s.hits + s.misses = 0 => s.hitRate = 0

\* a set, a get that hit and a get that missed: a hit rate of 50.00%
C10_Witness ==
    /\ calls.sets = 1
    /\ calls.hits = 1
    /\ calls.misses = 1
    /\ getStats(cache, stats).hitRate = 5000

\* C7 as stated, its second half: a set for a different prompt or a different
\* model never changes what get(p, m) returns other than by eviction (after
\* which get(p, m) returns absent).
C7_OtherSetKeepsValue ==
    [][\A t \in Targets :
         (/\ ret'.op = "set"
          /\ calls'.n = calls.n + 1
          /\ Effective(ret'.prompt, ret'.model) # Effective(t[1], t[2])
          /\ Lookup(cache', now', t) # None)
         => Lookup(cache', now', t) = Lookup(cache, now', t)]_vars

-----------------------------------------------------------------------------
(* Expiry: a caller that sets and gets two prompts with explicit and omitted
   ttl while time passes, and logs its calls *)

MaxTTLCalls == 3

TTLTargets == {<<strA, None>>, <<strA, Some(strOpus)>>}

NextTTL ==
    /\ \/ /\ calls.n < MaxTTLCalls
          /\ \/ GetCall(TTLTargets)
             \/ SetCall(TTLTargets, {objA1}, {None, Some(0), Some(1)})
          /\ Log
       \/ TickStep /\ UNCHANGED hist
    /\ UNCHANGED <<kin, kout>>

SpecTTL == Init /\ [][NextTTL]_vars

IsSet(h) == h.call.op = "set"
IsGet(h) == h.call.op = "get"
SameTarget(a, b) ==
    /\ a.call.prompt = b.call.prompt
    /\ Default(a.call.model, strHaiku) = Default(b.call.model, strHaiku)

\* hist[i] is a set with an explicit ttl > 0, hist[j] a later get of the same
\* prompt and model, and every call between them is a get
SetThenGet(i, j) ==
    /\ i < j
    /\ IsSet(hist[i])
    /\ hist[i].call.arg.ttl # None
    /\ hist[i].call.arg.ttl[1] > 0
    /\ IsGet(hist[j])
    /\ SameTarget(hist[i], hist[j])
    /\ \A k \in (i + 1)..(j - 1) : IsGet(hist[k])

\* C5 as stated: an entry set with ttl = T is returned by get at every time
\* now < createdAt + T and get returns absent at every time now >= createdAt + T.
C5_TTLBoundaryInclusive ==
    \A i, j \in DOMAIN hist :
        SetThenGet(i, j) =>
            LET T == hist[i].call.arg.ttl[1]
                createdAt == hist[i].slot[1].createdAt
                t == hist[j].at
            IN /\ t < createdAt + T => hist[j].call.result = Some(hist[i].call.arg.response)
               /\ t >= createdAt + T => hist[j].call.result = None

\* C5 amended: an entry set with ttl = T > 0, while it is not overwritten,
\* evicted or cleared, is returned by get at every time now <= s + T and get
\* returns absent at every time now > s + T, where s is the clock value set
\* read to compute expiresAt = s + T; at the instant now = s + T get still hits.
C5_TTLExpiry ==
    \A i, j \in DOMAIN hist :
        SetThenGet(i, j) =>
            LET T == hist[i].call.arg.ttl[1]
                s == hist[i].at
                t == hist[j].at
            IN /\ hist[i].slot[1].expiresAt = s + T
               /\ s <= hist[i].slot[1].createdAt
               /\ t <= s + T => hist[j].call.result = Some(hist[i].call.arg.response)
               /\ t > s + T => hist[j].call.result = None

\* a set with ttl = 1, then a get at the very instant expiresAt that hits,
\* then a get one tick later that misses
C5_Witness ==
    /\ Len(hist) = 3
    /\ SetThenGet(1, 2)
    /\ SetThenGet(1, 3)
    /\ hist[2].at = hist[1].at + hist[1].call.arg.ttl[1]
    /\ hist[2].call.result # None
    /\ hist[3].at > hist[2].at
    /\ hist[3].call.result = None

\* C6: a get for a key whose resident entry has now > expiresAt deletes that
\* entry (the size decreases by one), adds one to misses, leaves hits
\* unchanged and returns absent.
C6_ExpiredGet ==
    [][(/\ ret'.op = "get"
        /\ calls'.n = calls.n + 1
        /\ MapHas(cache, CallKey(ret'))
        /\ now > MapGet(cache, CallKey(ret')).expiresAt)
       => (/\ ~MapHas(cache', CallKey(ret'))
           /\ Len(cache') = Len(cache) - 1
           /\ \A e \in Range(cache) : e.key # CallKey(ret') => e \in Range(cache')
           /\ stats'.misses = stats.misses + 1
           /\ stats'.hits = stats.hits
           /\ ret'.result = None)]_vars

\* two entries are resident; one was set with ttl = 1 and a get after its
\* expiresAt missed and removed it, leaving the other
C6_Witness ==
    /\ Len(hist) = 3
    /\ IsSet(hist[1])
    /\ IsSet(hist[2])
    /\ ~SameTarget(hist[1], hist[2])
    /\ SetThenGet(2, 3)
    /\ hist[3].at > hist[2].at + hist[2].call.arg.ttl[1]
    /\ hist[3].call.result = None
    /\ Len(cache) = 1
    /\ stats.misses = 1
    /\ stats.hits = 0

-----------------------------------------------------------------------------
(* Capacity: a caller that only sets, every time a key it has not set before *)

MaxSetCalls == 3

SetsTargets == {<<p, None>> : p \in {strA, strB, strC, strD, strLong1, strLong2}}

NextSets ==
    /\ \/ /\ calls.n < MaxSetCalls
          /\ SetCall(SetsTargets, {objA1}, {None})
          /\ CallKey(ret') \notin {CallKey(hist[i].call) : i \in DOMAIN hist}
          /\ Log
       \/ TickStep /\ UNCHANGED hist
    /\ UNCHANGED <<kin, kout>>

SpecSets == Init /\ [][NextSets]_vars

\* C1: after every call of a sequence of set calls with pairwise distinct
\* keys, on a cache of capacity maxSize >= 1, the number of resident entries
\* is at most maxSize.
C1_SetsWithinCapacity ==
    /\ maxSize >= 1
    /\ Len(cache) <= maxSize

\* more distinct keys were set than the cache holds, and the cache is full
C1_Witness ==
    /\ Len(hist) > maxSize
    /\ \A i \in DOMAIN hist : IsSet(hist[i])
    /\ Len(cache) = maxSize
    /\ stats.sets = Len(hist)

-----------------------------------------------------------------------------
(* Capacity: a caller that uses every operation on two prompts *)

MaxCapCalls == 4

CapTargets == {<<strA, None>>, <<strB, None>>}

NextCap ==
    /\ \/ /\ calls.n < MaxCapCalls
          /\ \/ GetCall(CapTargets)
             \/ SetCall(CapTargets, {objA1}, {None, Some(1)})
             \/ ClearCall
             \/ GetMetadataCall(CapTargets)
             \/ ExportCall
             \/ ImportCall({snapshotVersion, snapshotVersion + 1})
       \/ TickStep
    /\ UNCHANGED <<hist, kin, kout>>

SpecCap == Init /\ [][NextCap]_vars

\* C2 as stated: in every reachable state, after any sequence of get, set,
\* clear, getMetadata, export and import, the number of resident entries is at
\* most the configured capacity.
C2_SizeWithinCapacity == Len(cache) <= maxSize

\* C2 amended: in every state reached by get, set, clear, getMetadata and
\* export alone the number of resident entries is at most the configured
\* capacity; import inserts without evicting and can exceed it.
C2_SizeWithinCapacityWithoutImport ==
    calls.imports = 0 => Len(cache) <= maxSize

\* no import was made, and a set at capacity 1 has evicted the entry that an
\* earlier export still shows
C2_Witness ==
    /\ calls.imports = 0
    /\ maxSize = 1
    /\ snapshot # None
    /\ Len(snapshot[1].entries) = 1
    /\ Len(cache) = 1
    /\ cache[1].key # snapshot[1].entries[1].key

-----------------------------------------------------------------------------
(* LRU: a caller that fills the cache with maxSize prompts, then reads some of
   them once each, then sets one more prompt *)

LRUPrompts == <<strA, strB, strC, strD>>

LRUTarget(i) == <<LRUPrompts[i], None>>

\* the prompts the caller has read so far
LRURead == {hist[i].call.prompt : i \in {j \in DOMAIN hist : IsGet(hist[j])}}

LRUFillCall ==
    /\ Len(hist) < maxSize
    /\ SetCall({LRUTarget(Len(hist) + 1)}, Responses, {None, Some(1)})
    /\ Log

LRUReadCall ==
    /\ maxSize <= Len(hist)
    /\ Len(hist) < 2 * maxSize - 1
    /\ GetCall({LRUTarget(i) : i \in {j \in 1..maxSize : LRUPrompts[j] \notin LRURead}})
    /\ Log

LRUInsertCall ==
    /\ Len(hist) = 2 * maxSize - 1
    /\ SetCall({LRUTarget(i) : i \in (maxSize + 1)..Len(LRUPrompts)},
               Responses, {None, Some(1)})
    /\ Log

NextLRU ==
    /\ \/ LRUFillCall
       \/ LRUReadCall
       \/ LRUInsertCall
       \/ TickStep /\ UNCHANGED hist
    /\ UNCHANGED <<kin, kout>>

SpecLRU == Init /\ [][NextLRU]_vars

\* the scenario is complete
LRUDone == Len(hist) = 2 * maxSize

\* ... and the caller read every prompt but the first inserted
LRUReadAllButFirst == LRUDone /\ LRUPrompts[1] \notin LRURead

LRUAllReadsHit == \A i \in DOMAIN hist : IsGet(hist[i]) => hist[i].call.result # None

\* the targets other than the first inserted: the ones read and the new one
LRUOthers ==
    {LRUTarget(i) : i \in 2..maxSize} \cup {<<hist[Len(hist)].call.prompt, None>>}

\* the response the caller set for the target t
LRUValue(t) ==
    hist[CHOOSE i \in DOMAIN hist : IsSet(hist[i]) /\ hist[i].call.prompt = t[1]]
        .call.arg.response

\* C3 as stated: with capacity N, after N inserts, a get of each but the first
\* inserted and one more insert, the first inserted entry is the one evicted
\* and every other entry is still retrievable by get, whatever the clock values.
C3_FirstEvictedOthersRetrievable ==
    LRUReadAllButFirst =>
        /\ ~MapHas(cache, TargetKeys[LRUTarget(1)])
        /\ \A t \in LRUOthers : Lookup(cache, now, t) = Some(LRUValue(t))

\* C3 amended: ... provided every one of the reads hits (no entry had expired
\* when it was read), the first inserted entry is the one evicted and every
\* other entry is still resident and returned by get until it expires, for
\* all non-decreasing clock values, equal timestamps included.
C3_FirstEvictedOthersResident ==
    (LRUReadAllButFirst /\ LRUAllReadsHit) =>
        /\ ~MapHas(cache, TargetKeys[LRUTarget(1)])
        /\ Len(cache) = maxSize
        /\ \A t \in LRUOthers :
            /\ MapHas(cache, TargetKeys[t])
            /\ ~isExpired(now, MapGet(cache, TargetKeys[t]))
                   => Lookup(cache, now, t) = Some(LRUValue(t))

\* capacity 2, and the whole scenario ran within one clock value: every
\* lastAccessed is the same
C3_Witness ==
    /\ LRUReadAllButFirst
    /\ LRUAllReadsHit
    /\ maxSize = 2
    /\ now = 0
    /\ \A t \in LRUOthers : Lookup(cache, now, t) = Some(LRUValue(t))

\* C4 as stated: with capacity 2, set(A), set(B), get(A) hitting, set(C)
\* evicts B: afterwards A and C are resident, as a hit of get needs, and B is
\* not, so that get(B) misses.
C4_RecentlyHitSurvives ==
    (/\ maxSize = 2
     /\ LRUDone
     /\ hist[3].call.prompt = LRUPrompts[1]
     /\ hist[3].call.result # None)
    => /\ ~MapHas(cache, TargetKeys[LRUTarget(2)])
       /\ MapHas(cache, TargetKeys[LRUTarget(1)])
       /\ MapHas(cache, TargetKeys[<<hist[4].call.prompt, None>>])

-----------------------------------------------------------------------------
(* generateKey on its own: two argument lists are drawn, then the key of each
   is computed *)

KeyInputs ==
    [prompt : {strLong1, strLong2, strA, strLc, strLbColonC},
     model : {None, Some(strHaiku), Some(strLa), Some(strLaColonB)},
     options : {None, Some(objEmpty), Some(objA1), Some(objA2)}]

InitKey ==
    /\ \E options \in ConstructorOptions : Construct(options)
    /\ now = 0
    /\ ret = Ret("new", << >>, None, << >>, None)
    /\ calls = [n |-> 0, hits |-> 0, misses |-> 0, sets |-> 0, imports |-> 0]
    /\ snapshot = None
    /\ hist = << >>
    /\ kin \in KeyInputs \X KeyInputs
    /\ kout = << >>

GenerateKeyCall ==
    /\ Len(kout) < Len(kin)
    /\ LET a == kin[Len(kout) + 1]
       IN /\ kout' = Append(kout, generateKey(a.prompt, a.model, a.options))
          /\ ret' = Ret("generateKey", a.prompt, a.model, a.options, None)
    /\ UNCHANGED <<cache, stats, defaultTTL, maxSize, now, calls, snapshot, hist, kin>>

NextKey == GenerateKeyCall

SpecKey == InitKey /\ [][NextKey]_vars

\* the arguments with the defaults of generateKey applied
EffectiveInput(a) ==
    <<a.prompt, Default(a.model, strHaiku), Default(a.options, objEmpty)>>

\* C8 as stated: any two inputs that differ in the prompt, in the model or in
\* the options get different keys.
C8_KeysInjective ==
    Len(kout) = 2 =>
        (EffectiveInput(kin[1]) # EffectiveInput(kin[2]) => kout[1] # kout[2])

-----------------------------------------------------------------------------
(* getMetadata, under the caller that uses every operation *)

\* C11: a call of getMetadata changes no entry (no lastAccessed, no
\* accessCount, no entry removed) and neither hits nor misses, so that what a
\* later get returns for any prompt and the entry a later eviction removes are
\* what they were before the call.
C11_GetMetadataIsPurePeek ==
    [][(ret'.op = "getMetadata" /\ calls'.n = calls.n + 1)
       => (/\ cache' = cache
           /\ stats'.hits = stats.hits
           /\ stats'.misses = stats.misses
           /\ \A t \in Targets : Lookup(cache', now', t) = Lookup(cache, now', t)
           /\ evictLRU(cache') = evictLRU(cache))]_vars

\* getMetadata has just described an entry that was hit once, and has also
\* been called for a prompt that is not resident
C11_Witness ==
    /\ ret.op = "getMetadata"
    /\ ret.result # None
    /\ ret.result[1].accessCount = 1
    /\ MapGet(cache, CallKey(ret)).accessCount = 1
    /\ stats.hits = 1
    /\ stats.misses = 0

-----------------------------------------------------------------------------
(* Snapshots: a caller that sets and gets two prompts, each with its own
   response, exports, and imports
   the last snapshot either into the same cache or into a newly constructed
   one, which it uses from then on *)

MaxSnapCalls == 4

SnapTargets == {<<strA, None>>, <<strB, None>>}

\* const cache2 = new ResponseCache(); cache2.import(exported)
ImportIntoNewCall ==
    /\ snapshot # None
    /\ \E ts \in ReadSeqs(Len(snapshot[1].entries)) :
        LET data == snapshot[1]
            options == [ttl |-> None, maxSize |-> None]
            done == importLoop(<< >>, data.entries, ts, 1, 0)
        IN /\ data.version = snapshotVersion
           /\ cache' = done.cache
           /\ stats' = [hits |-> 0, misses |-> 0, sets |-> 0, clears |-> 0]
           /\ defaultTTL' = OrElse(options.ttl, defaultTTLms)
           /\ maxSize' = OrElse(options.maxSize, defaultMaxSize)
           /\ now' = IF ts = << >> THEN now ELSE ts[Len(ts)]
           /\ ret' = Ret("importNew", << >>, None, [version |-> data.version],
                         Some([imported |-> done.imported,
                               skipped |-> Len(data.entries) - done.imported]))
    /\ Tally("import")
    /\ UNCHANGED snapshot

NextSnap ==
    /\ \/ /\ calls.n < MaxSnapCalls
          /\ \/ GetCall(SnapTargets)
             \/ SetCall({<<strA, None>>}, {objA1}, {None, Some(1)})
             \/ SetCall({<<strB, None>>}, {objA2}, {None, Some(1)})
             \/ ExportCall
             \/ ImportCall({snapshotVersion, snapshotVersion + 1})
             \/ ImportIntoNewCall
       \/ TickStep
    /\ UNCHANGED <<hist, kin, kout>>

SpecSnap == Init /\ [][NextSnap]_vars

\* C12: when the last snapshot was exported from the cache as it is, at the
\* present clock value and with no entry expired, importing it into a new
\* cache at that same clock value gives a cache in which get returns, for
\* every key resident in the original, the value the original returns, and
\* the imported count is the number of entries of the snapshot.
C12_ExportImportRoundTrip ==
    [][(/\ ret'.op = "importNew"
        /\ snapshot[1].entries = cache
        /\ snapshot[1].exportedAt = now
        /\ \A e \in Range(cache) : now <= e.expiresAt
        /\ now' = now)
       => (/\ \A t \in SnapTargets :
                 MapHas(cache, TargetKeys[t]) =>
                     /\ Lookup(cache', now', t) # None
                     /\ Lookup(cache', now', t) = Lookup(cache, now, t)
           /\ ret'.result # None
           /\ ret'.result[1].imported = Len(snapshot[1].entries))]_vars

\* a new cache (default capacity, counters at zero) holds the two entries, with
\* different responses, of the snapshot it has just imported
C12_Witness ==
    /\ ret.op = "importNew"
    /\ ret.result = Some([imported |-> 2, skipped |-> 0])
    /\ maxSize = defaultMaxSize
    /\ stats.sets = 0
    /\ Len(cache) = 2
    /\ cache[1].response # cache[2].response
    /\ snapshot[1].entries = cache
    /\ snapshot[1].exportedAt = now

\* C13 as stated: import of a snapshot whose version is not 1 returns a
\* result with imported = 0 and skipped = the number of entries of the
\* snapshot, and leaves the store and the counters unchanged.
C13_VersionMismatchReported ==
    [][(ret'.op = "import" /\ ret'.arg.version # snapshotVersion)
       => (/\ ret'.result = Some([imported |-> 0, skipped |-> Len(snapshot[1].entries)])
           /\ cache' = cache
           /\ stats' = stats)]_vars

\* the store an import is applied to: the cache itself, or the empty store of
\* the newly constructed cache
ImportBase(r) == IF r.op = "import" THEN cache ELSE << >>

\* C14: import of a version-1 snapshot inserts the snapshot entries with
\* now <= expiresAt as they are in the snapshot (expiresAt, createdAt,
\* lastAccessed and accessCount included), skips the entries with
\* now > expiresAt, evicts nothing, and returns counts with imported + skipped
\* = number of snapshot entries.  now is the clock during the call: an entry
\* fresh at the end of the call is inserted, an entry expired at its start is
\* skipped.
C14_ImportAppliesFreshEntries ==
    [][(ret'.op \in {"import", "importNew"} /\ ret'.arg.version = snapshotVersion)
       => LET entries == snapshot[1].entries
              base == ImportBase(ret')
              fresh(t) == {i \in DOMAIN entries : t <= entries[i].expiresAt}
          IN /\ \A i \in fresh(now') :
                    /\ MapHas(cache', entries[i].key)
                    /\ MapGet(cache', entries[i].key) = entries[i]
             /\ \A i \in DOMAIN entries \ fresh(now) :
                    IF MapHas(base, entries[i].key)
                    THEN MapGet(cache', entries[i].key) = MapGet(base, entries[i].key)
                    ELSE ~MapHas(cache', entries[i].key)
             /\ \A b \in Range(base) :
                    /\ MapHas(cache', b.key)
                    /\ b.key \notin MapKeys(entries) => b \in Range(cache')
             /\ MapKeys(cache') \subseteq MapKeys(base) \cup MapKeys(entries)
             /\ Len(cache') = Cardinality(MapKeys(cache'))
             /\ ret'.result # None
             /\ ret'.result[1].imported >= Cardinality(fresh(now'))
             /\ ret'.result[1].imported <= Cardinality(fresh(now))
             /\ ret'.result[1].imported + ret'.result[1].skipped = Len(entries)]_vars

\* an import into the same cache has inserted one entry of the snapshot and
\* skipped the other, which had expired
C14_Witness ==
    /\ ret.op = "import"
    /\ ret.result = Some([imported |-> 1, skipped |-> 1])
    /\ Len(snapshot[1].entries) = 2
    /\ \E i \in 1..2 :
        /\ now > snapshot[1].entries[i].expiresAt
        /\ now <= snapshot[1].entries[3 - i].expiresAt
        /\ snapshot[1].entries[3 - i] \in Range(cache)

\* C15: export returns the resident entries with now <= expiresAt, omits the
\* resident entries with now > expiresAt, and leaves the store and the
\* counters as they were.  now is the clock during the call: an entry fresh at
\* the end of the call is exported, an entry expired at its start is omitted.
C15_ExportFreshOnly ==
    [][(ret'.op = "export")
       => LET entries == snapshot'[1].entries
          IN /\ cache' = cache
             /\ stats' = stats
             /\ \A e \in Range(entries) : e \in Range(cache) /\ now <= e.expiresAt
             /\ \A e \in Range(cache) :
                    /\ now' <= e.expiresAt => e \in Range(entries)
                    /\ now > e.expiresAt => e \notin Range(entries)
             /\ Len(entries) = Cardinality(Range(entries))]_vars

\* an export has omitted an expired entry, which is still in the store
C15_Witness ==
    /\ ret.op = "export"
    /\ Len(cache) = 2
    /\ Len(snapshot[1].entries) = 1
    /\ \E e \in Range(cache) : now > e.expiresAt /\ e \notin Range(snapshot[1].entries)

-----------------------------------------------------------------------------
(* set on a full store, and accessCount, under the caller that uses every
   operation on two prompts *)

\* C16 as stated: a set that overwrites an already-resident key while the
\* store is full removes no other entry: every other resident entry is still
\* resident, unchanged, afterwards.
C16_OverwriteEvictsNothing ==
    [][(/\ ret'.op = "set"
        /\ calls'.n = calls.n + 1
        /\ MapHas(cache, CallKey(ret'))
        /\ Len(cache) >= maxSize)
       => \A e \in Range(cache) : e.key # CallKey(ret') => e \in Range(cache')]_vars

\* C19 as stated: set (insert or overwrite) puts the accessCount of its entry
\* at 0, a get that hits adds exactly one to the accessCount of its entry, and
\* no other operation changes the accessCount of an entry or creates an entry.
C19_AccessCountCountsHits ==
    [][\A e \in Range(cache') :
         IF ret'.op = "set" /\ e.key = CallKey(ret')
         THEN e.accessCount = 0
         ELSE IF ret'.op = "get" /\ ret'.result # None /\ e.key = CallKey(ret')
              THEN e.accessCount = MapGet(cache, e.key).accessCount + 1
              ELSE /\ MapHas(cache, e.key)
                   /\ e.accessCount = MapGet(cache, e.key).accessCount]_vars

\* C19 amended: ... and no operation other than import changes the
\* accessCount of an entry or creates an entry; an import step puts in the
\* store entries of the snapshot as they are, with the accessCount they had
\* when they were exported, also in place of a resident entry of the same key.
C19_AccessCountCountsHitsButImport ==
    [][\A e \in Range(cache') :
         IF ret'.op = "set" /\ e.key = CallKey(ret')
         THEN e.accessCount = 0
         ELSE IF ret'.op = "get" /\ ret'.result # None /\ e.key = CallKey(ret')
              THEN e.accessCount = MapGet(cache, e.key).accessCount + 1
              ELSE IF ret'.op = "import" /\ e \notin Range(cache)
                   THEN e \in Range(snapshot[1].entries)
                   ELSE /\ MapHas(cache, e.key)
                        /\ e.accessCount = MapGet(cache, e.key).accessCount]_vars

\* an entry was set, exported and inspected, and then hit twice
C19_Witness ==
    /\ ret.op = "get"
    /\ ret.result # None
    /\ calls.sets = 1
    /\ calls.hits = 2
    /\ calls.n = 4
    /\ MapGet(cache, CallKey(ret)).accessCount = 2
    /\ snapshot # None
    /\ Len(snapshot[1].entries) = 1
    /\ snapshot[1].entries[1].accessCount < 2

-----------------------------------------------------------------------------
(* getMetadata of an expired entry, under the caller that uses every operation
   on two prompts *)

\* C18 as stated: getMetadata returns absent whenever a get at the same
\* instant would return absent, that is when no entry is resident for the key
\* and when the resident entry is expired (now > expiresAt); when it returns a
\* description, exists is true and a get would return the entry.
C18_MetadataOnlyForFreshEntries ==
    [][(ret'.op = "getMetadata" /\ calls'.n = calls.n + 1)
       => LET t == <<ret'.prompt, ret'.model>>
          IN /\ Lookup(cache, now, t) = None => ret'.result = None
             /\ ret'.result # None =>
                    /\ ret'.result[1].exists
                    /\ Lookup(cache, now, t) # None]_vars

-----------------------------------------------------------------------------
(* clear: a caller that sets two prompts and gets one, clears, exports and imports
   the last snapshot, and logs its calls *)

MaxClearCalls == 5

ClearTargets == {<<strA, None>>, <<strB, None>>}

NextClear ==
    /\ calls.n < MaxClearCalls
    /\ \/ GetCall({<<strA, None>>})
       \/ SetCall(ClearTargets, {objA1}, {None})
       \/ ClearCall
       \/ ExportCall
       \/ ImportCall({snapshotVersion})
    /\ Log
    /\ UNCHANGED <<kin, kout>>

SpecClear == Init /\ [][NextClear]_vars

IsClear(h) == h.call.op = "clear"
IsImport(h) == h.call.op = "import"

\* the caller has cleared the cache and has made no call of one of the
\* operations ops since
ClearedAndNo(ops) ==
    \E i \in DOMAIN hist :
        /\ IsClear(hist[i])
        /\ \A j \in (i + 1)..Len(hist) : hist[j].call.op \notin ops

\* C17 as stated: clear removes every resident entry (the size becomes 0),
\* leaves the hits, misses and sets counters at the values they had, and
\* every get after it misses until a new set.
C17_ClearEmptiesUntilSet ==
    [][/\ ret'.op = "clear" =>
            /\ cache' = << >>
            /\ stats'.hits = stats.hits
            /\ stats'.misses = stats.misses
            /\ stats'.sets = stats.sets
       /\ (ret'.op = "get" /\ ClearedAndNo({"set"})) => ret'.result = None]_vars

\* C17 amended: ... and every get after it misses until a new set or an
\* import, which puts the entries of a snapshot back in the store.
C17_ClearEmptiesUntilSetOrImport ==
    [][/\ ret'.op = "clear" =>
            /\ cache' = << >>
            /\ stats'.hits = stats.hits
            /\ stats'.misses = stats.misses
            /\ stats'.sets = stats.sets
       /\ (ret'.op = "get" /\ ClearedAndNo({"set", "import"})) => ret'.result = None]_vars

\* two prompts were set and one of them hit; after the clear the same get
\* misses, and the counters show the two sets, the hit and the miss
C17_Witness ==
    /\ Len(hist) = 5
    /\ IsSet(hist[1])
    /\ IsSet(hist[2])
    /\ ~SameTarget(hist[1], hist[2])
    /\ IsGet(hist[3])
    /\ hist[3].call.result # None
    /\ IsClear(hist[4])
    /\ IsGet(hist[5])
    /\ SameTarget(hist[3], hist[5])
    /\ hist[5].call.result = None
    /\ maxSize = 2
    /\ cache = << >>
    /\ stats.sets = 2
    /\ stats.hits = 1
    /\ stats.misses = 1

-----------------------------------------------------------------------------
(* evictLRU called on its own: a caller that sets three prompts, gets two of
   them and calls evictLRU, also on an empty store *)

MaxEvictCalls == 4

EvictTargets == {<<strA, None>>, <<strB, None>>, <<strC, None>>}

EvictLRUCall ==
    /\ cache' = evictLRU(cache)
    /\ ret' = Ret("evictLRU", << >>, None, << >>, None)
    /\ Tally("evictLRU")
    /\ UNCHANGED <<stats, now, defaultTTL, maxSize, snapshot>>

NextEvict ==
    /\ \/ /\ calls.n < MaxEvictCalls
          /\ \/ GetCall(EvictTargets)
             \/ SetCall(EvictTargets, {objA1}, {None})
             \/ EvictLRUCall
       \/ TickStep
    /\ UNCHANGED <<hist, kin, kout>>

SpecEvict == Init /\ [][NextEvict]_vars

\* C20: evictLRU on a non-empty store removes exactly one entry, one whose
\* lastAccessed is minimal among the resident entries, and leaves the others
\* as they were and in their order; on an empty store it removes nothing.
C20_EvictsOneLeastRecent ==
    [][(ret'.op = "evictLRU")
       => IF cache = << >>
          THEN cache' = << >>
          ELSE \E i \in 1..Len(cache) :
                  /\ cache' = SubSeq(cache, 1, i - 1) \o SubSeq(cache, i + 1, Len(cache))
                  /\ \A j \in 1..Len(cache) :
                         cache[i].lastAccessed <= cache[j].lastAccessed]_vars

\* two prompts were set and the first was hit at a later clock value:
\* evictLRU has removed the second, whose lastAccessed was smaller
C20_Witness ==
    /\ ret.op = "evictLRU"
    /\ maxSize = 2
    /\ calls.sets = 2
    /\ calls.hits = 1
    /\ Len(cache) = 1
    /\ cache[1].key = TargetKeys[<<strA, None>>]
    /\ cache[1].accessCount = 1
    /\ cache[1].lastAccessed > cache[1].createdAt

-----------------------------------------------------------------------------
(* A get that hits, and the order of the Map, under the caller that sets
   three prompts, gets two of them and calls evictLRU *)

\* C21: a get that hits adds one to hits, puts the lastAccessed of the hit
\* entry at now (a clock value read during the call) and adds one to its
\* accessCount; the entry's response, createdAt and expiresAt, every other
\* entry, the keys of the store and their order, and the misses and sets
\* counters are unchanged.
C21_HitChangesOnlyAccessFields ==
    [][(ret'.op = "get" /\ ret'.result # None)
       => LET k == CallKey(ret')
              before == MapGet(cache, k)
              after == MapGet(cache', k)
          IN /\ stats' = [stats EXCEPT !.hits = @ + 1]
             /\ Len(cache') = Len(cache)
             /\ \A i \in 1..Len(cache) :
                    /\ cache'[i].key = cache[i].key
                    /\ cache[i].key # k => cache'[i] = cache[i]
             /\ after = [before EXCEPT !.lastAccessed = after.lastAccessed,
                                       !.accessCount = before.accessCount + 1]
             /\ now <= after.lastAccessed
             /\ after.lastAccessed <= now'
             /\ ret'.result = Some(before.response)]_vars

\* the second of two resident entries has just been hit, at a clock value
\* later than its insertion
C21_Witness ==
    /\ ret.op = "get"
    /\ ret.result # None
    /\ Len(cache) = 2
    /\ cache[2].key = CallKey(ret)
    /\ cache[2].accessCount = 1
    /\ cache[2].lastAccessed > cache[2].createdAt
    /\ cache[1].accessCount = 0
    /\ stats.hits = 1
    /\ stats.misses = 0
    /\ stats.sets = 2

\* the first slot of c, in Map order, whose lastAccessed is minimal
EarliestOfLeastRecent(c) ==
    CHOOSE i \in 1..Len(c) :
        /\ \A j \in 1..Len(c) : c[i].lastAccessed <= c[j].lastAccessed
        /\ \A j \in 1..(i - 1) : c[j].lastAccessed > c[i].lastAccessed

\* x comes before y in the Map order of c
Before(c, x, y) == MapIndex(c, x) < MapIndex(c, y)

\* C26 as stated: when several resident entries share the minimum
\* lastAccessed, evictLRU removes the one whose key was inserted earliest,
\* and a set that overwrites a resident key leaves that key at its position
\* in the order of the keys.
C26_TiesEvictEarliestInserted ==
    [][/\ (ret'.op = "evictLRU" /\ cache # << >>) =>
            LET i == EarliestOfLeastRecent(cache)
            IN cache' = SubSeq(cache, 1, i - 1) \o SubSeq(cache, i + 1, Len(cache))
       /\ (ret'.op = "set" /\ MapHas(cache, CallKey(ret'))) =>
            \A x \in MapKeys(cache') \ {CallKey(ret')} :
                /\ MapHas(cache, x)
                /\ Before(cache', x, CallKey(ret')) <=> Before(cache, x, CallKey(ret'))]_vars

-----------------------------------------------------------------------------
(* The timestamps set writes, under the caller that sets and gets with
   explicit and omitted ttl *)

\* the ttl argument of the logged set h, or the default when it was omitted
SuppliedTTL(h) == IF h.call.arg.ttl = None THEN defaultTTL ELSE h.call.arg.ttl[1]

\* C22 as stated: set stores expiresAt = now + ttl for every ttl the caller
\* supplies, ttl = 0 included, and now + defaultTTL only when ttl is omitted;
\* now is the clock value at which the call starts.
C22_SuppliedTTLIsUsed ==
    \A i \in DOMAIN hist :
        IsSet(hist[i]) => hist[i].slot[1].expiresAt = hist[i].at + SuppliedTTL(hist[i])

\* C23 as stated: every entry written by set has createdAt = lastAccessed and
\* expiresAt = createdAt + effective ttl right after the call, the effective
\* ttl being the one set used (the default for an omitted or zero ttl), also
\* when the clock advances between the reads of the call.
C23_SetTimestampsAgree ==
    \A i \in DOMAIN hist :
        IsSet(hist[i]) =>
            /\ hist[i].slot[1].createdAt = hist[i].slot[1].lastAccessed
            /\ hist[i].slot[1].expiresAt =
                   hist[i].slot[1].createdAt + OrElse(hist[i].call.arg.ttl, defaultTTL)

-----------------------------------------------------------------------------
(* import into a store in use: a caller that sets three prompts, gets one,
   exports, and imports the last snapshot into the same cache *)

MaxImportCalls == 5

ImportTargets == {<<strA, None>>, <<strB, None>>, <<strC, None>>}

NextImport ==
    /\ calls.n < MaxImportCalls
    /\ \/ GetCall({<<strA, None>>})
       \/ SetCall(ImportTargets, {objA1}, {None})
       \/ ExportCall
       \/ ImportCall({snapshotVersion, snapshotVersion + 1})
    /\ UNCHANGED <<hist, kin, kout>>

SpecImport == Init /\ [][NextImport]_vars

\* C27: a set removes at most one entry; when the store holds more entries
\* than its capacity (an import has left size = capacity + k, k > 0), a set
\* of a key that is not resident leaves the size as it was.
C27_SetKeepsExcess ==
    [][(ret'.op = "set")
       => /\ Cardinality(MapKeys(cache) \ MapKeys(cache')) <= 1
          /\ (Len(cache) > maxSize /\ ~MapHas(cache, CallKey(ret')))
                 => Len(cache') = Len(cache)]_vars

\* capacity 1: the first prompt was set and exported, the second set, the
\* import has left two entries, and the set of the third prompt has left two
\* again
C27_Witness ==
    /\ ret.op = "set"
    /\ maxSize = 1
    /\ calls.imports = 1
    /\ calls.sets = 3
    /\ MapKeys(snapshot[1].entries) = {TargetKeys[<<strA, None>>]}
    /\ Len(cache) = 2
    /\ cache[1].key = TargetKeys[<<strB, None>>]
    /\ cache[2].key = TargetKeys[<<strC, None>>]

\* C29: import leaves hits, misses and sets unchanged and leaves every
\* resident entry whose key is not in the snapshot as it is and where it is;
\* a resident entry whose key is in the snapshot with a fresh entry is
\* replaced by the entry of the snapshot, and no other key appears.
C29_ImportTouchesSnapshotKeysOnly ==
    [][(ret'.op = "import")
       => LET entries == snapshot[1].entries
          IN /\ stats' = stats
             /\ \A i \in 1..Len(cache) :
                    /\ cache'[i].key = cache[i].key
                    /\ cache[i].key \notin MapKeys(entries) => cache'[i] = cache[i]
             /\ \A e \in Range(entries) :
                    (/\ ret'.arg.version = snapshotVersion
                     /\ MapHas(cache, e.key)
                     /\ now' <= e.expiresAt) => MapGet(cache', e.key) = e
             /\ MapKeys(cache') \subseteq MapKeys(cache) \cup MapKeys(entries)]_vars

\* the resident entry was hit after the export; the import has put the
\* snapshot's entry, not yet hit, in its place and has left the entry set
\* after the export as it was
C29_Witness ==
    /\ ret.op = "import"
    /\ ret.result = Some([imported |-> 1, skipped |-> 0])
    /\ calls.hits = 1
    /\ calls.sets = 2
    /\ stats.hits = 1
    /\ Len(cache) = 2
    /\ cache[1] = snapshot[1].entries[1]
    /\ cache[1].accessCount = 0
    /\ cache[2].key \notin MapKeys(snapshot[1].entries)

-----------------------------------------------------------------------------
(* Expired entries in the store: a caller that sets three prompts, the second
   always with ttl = 1, uses the other operations while time passes, and logs
   its calls *)

MaxExpiryCalls == 3

ExpiryTargets == {<<strA, None>>, <<strB, None>>, <<strC, None>>}

NextExpiry ==
    /\ \/ /\ calls.n < MaxExpiryCalls
          /\ \/ GetCall({<<strA, None>>, <<strB, None>>})
             \/ SetCall({<<strA, None>>, <<strC, None>>}, {objA1}, {None})
             \/ SetCall({<<strB, None>>}, {objA1}, {Some(1)})
             \/ ClearCall
             \/ GetMetadataCall({<<strB, None>>})
             \/ ExportCall
             \/ ImportCall({snapshotVersion})
          /\ Log
       \/ TickStep /\ UNCHANGED hist
    /\ UNCHANGED <<kin, kout>>

SpecExpiry == Init /\ [][NextExpiry]_vars

\* the step is a set on a full store
SetAtCapacity == ret'.op = "set" /\ Len(cache) >= maxSize

\* C28: an expired entry (now > expiresAt) stays resident, counting toward
\* the size, through every step other than a get on its own key, a clear, or
\* an eviction that selects it, and it stays as it is unless a set or an
\* import writes its key; a set on a full store evicts the entry with the
\* minimum lastAccessed (the earliest inserted of them), whether it is fresh
\* or expired and whether or not another resident entry is expired.
C28_EvictionIgnoresExpiry ==
    [][/\ \A e \in Range(cache) :
            now > e.expiresAt =>
                /\ \/ MapHas(cache', e.key)
                   \/ ret'.op = "get" /\ CallKey(ret') = e.key
                   \/ ret'.op = "clear"
                   \/ SetAtCapacity /\ cache[EarliestOfLeastRecent(cache)].key = e.key
                /\ (/\ MapHas(cache', e.key)
                    /\ ~(ret'.op = "set" /\ CallKey(ret') = e.key)
                    /\ ret'.op # "import") => e \in Range(cache')
       /\ SetAtCapacity =>
            LET victim == cache[EarliestOfLeastRecent(cache)].key
            IN /\ victim # CallKey(ret') => ~MapHas(cache', victim)
               /\ \A e \in Range(cache) :
                      e.key \notin {victim, CallKey(ret')} => e \in Range(cache')
               /\ Len(cache') = Len(cache) - 1 + (IF MapHas(cache, CallKey(ret')) /\ victim # CallKey(ret') THEN 0 ELSE 1)]_vars

\* capacity 2: the first prompt, set with the default ttl and still fresh, has
\* been evicted by the set of the third, and the second prompt, expired, is
\* still resident
C28_Witness ==
    /\ ret.op = "set"
    /\ maxSize = 2
    /\ Len(hist) = 3
    /\ \A i \in 1..3 : IsSet(hist[i]) /\ hist[i].call.prompt = LRUPrompts[i]
    /\ now <= hist[1].slot[1].expiresAt
    /\ Len(cache) = 2
    /\ cache[1].key = TargetKeys[<<strB, None>>]
    /\ now > cache[1].expiresAt
    /\ cache[2].key = TargetKeys[<<strC, None>>]

-----------------------------------------------------------------------------
(* PromptCache.optimizeForCaching (prompt-cache.js).  A message content is a
   string, described by its length and by whether the regular expressions of
   containsToolDefinitions and containsExamples match it; a system prompt is
   described by its length, None being null. *)

MaxMessages == 5

cacheThreshold == 1024
maxCacheBreakpoints == 4

\* the state of the ResponseCache, which the functions below do not use
InitIdle ==
    /\ Construct([ttl |-> None, maxSize |-> None])
    /\ now = 0
    /\ ret = Ret("new", << >>, None, << >>, None)
    /\ calls = [n |-> 0, hits |-> 0, misses |-> 0, sets |-> 0, imports |-> 0]
    /\ snapshot = None
    /\ hist = << >>
    /\ kout = << >>

PromptContents ==
    [length : {cacheThreshold, cacheThreshold + 1, 2 * cacheThreshold + 1},
     tools : {FALSE},
     examples : {FALSE}]
        \cup {[length |-> 7, tools |-> FALSE, examples |-> TRUE],
              [length |-> 4, tools |-> TRUE, examples |-> FALSE]}

PromptMessages == [role : {"user"}, content : PromptContents]

SystemPrompts == {None, Some(0), Some(cacheThreshold), Some(cacheThreshold + 1)}

containsToolDefinitions(content) == content.tools
containsExamples(content) == content.examples

\* index counts from 0, as in the source
shouldCache(message, index, allMessages) ==
    \/ index < Len(allMessages) - 2 /\ message.content.length > cacheThreshold
    \/ message.content.length > cacheThreshold * 2
    \/ containsToolDefinitions(message.content) \/ containsExamples(message.content)

\* addCacheControl of a string: one text block that carries the marker
addCacheControl(content) ==
    << [type |-> "text", text |-> content, cache_control |-> TRUE] >>

\* a message as it is passed through: its content is the string, no marker
PassThrough(message) ==
    [role |-> message.role,
     content |-> << [type |-> "text", text |-> message.content, cache_control |-> FALSE] >>]

\* the loop of identifyCacheableContent from index i (from 0) on
RECURSIVE identifyLoop(_, _, _)
identifyLoop(messages, i, cacheBreakpoints) ==
    IF i >= Len(messages) THEN << >>
    ELSE LET message == messages[i + 1]
         IN IF shouldCache(message, i, messages) /\ cacheBreakpoints < maxCacheBreakpoints
            THEN <<[role |-> message.role, content |-> addCacheControl(message.content)]>>
                     \o identifyLoop(messages, i + 1, cacheBreakpoints + 1)
            ELSE <<PassThrough(message)>> \o identifyLoop(messages, i + 1, cacheBreakpoints)

identifyCacheableContent(messages) == identifyLoop(messages, 0, 0)

\* system is null, the string, or one text block with the marker
optimizeForCaching(messages, systemPrompt) ==
    [model |-> None,
     system |-> IF systemPrompt # None /\ systemPrompt[1] # 0 /\ systemPrompt[1] > cacheThreshold
                THEN << [type |-> "text", text |-> systemPrompt[1], cache_control |-> TRUE] >>
                ELSE IF systemPrompt # None /\ systemPrompt[1] # 0
                     THEN << [type |-> "text", text |-> systemPrompt[1], cache_control |-> FALSE] >>
                     ELSE << >>,
     messages |-> identifyCacheableContent(messages)]

RECURSIVE SeqsUpTo(_, _)
SeqsUpTo(S, n) ==
    IF n = 0 THEN {<< >>}
    ELSE LET shorter == SeqsUpTo(S, n - 1)
         IN shorter \cup {Append(q, x) : q \in {r \in shorter : Len(r) = n - 1}, x \in S}

InitPrompt ==
    /\ InitIdle
    /\ kin \in [messages : SeqsUpTo(PromptMessages, MaxMessages), systemPrompt : SystemPrompts]

OptimizeForCachingCall ==
    /\ kout = << >>
    /\ kout' = <<optimizeForCaching(kin.messages, kin.systemPrompt)>>
    /\ ret' = Ret("optimizeForCaching", << >>, None, << >>, None)
    /\ UNCHANGED <<cache, stats, defaultTTL, maxSize, now, calls, snapshot, hist, kin>>

NextPrompt == OptimizeForCachingCall

SpecPrompt == InitPrompt /\ [][NextPrompt]_vars

\* the cache_control markers of a request: on the system prompt and on the
\* content blocks of the messages
RECURSIVE CountMarked(_)
CountMarked(blocks) ==
    IF blocks = << >> THEN 0
    ELSE (IF Head(blocks).cache_control THEN 1 ELSE 0) + CountMarked(Tail(blocks))

RECURSIVE CountMessageMarkers(_)
CountMessageMarkers(messages) ==
    IF messages = << >> THEN 0
    ELSE CountMarked(Head(messages).content) + CountMessageMarkers(Tail(messages))

CountMarkers(request) == CountMarked(request.system) + CountMessageMarkers(request.messages)

\* C24 as stated: the request returned by optimizeForCaching carries at most
\* maxCacheBreakpoints cache_control markers, the one on the system prompt
\* counted with the ones on the messages.
C24_AtMostMaxBreakpoints ==
    kout # << >> => CountMarkers(kout[1]) <= maxCacheBreakpoints

-----------------------------------------------------------------------------
(* ModelRouter.classifyComplexity (model-router.js).  A prompt is described by
   the patterns its lower-cased text matches and by its number of words,
   text.split(/\s+/).length, which is at least 1. *)

MaxWords == 201

simplePatterns == <<"classify|extract|tag|translate|format|summarize|faq">>
complexPatterns == <<"analyze|generate|design|refactor|code|algorithm|architecture">>

\* pattern.test(text)
PatternTest(pattern, text) == pattern \in text.matches

RouterPrompts ==
    [matches : SUBSET (Range(simplePatterns) \cup Range(complexPatterns)),
     wordCount : 1..MaxWords]

\* the first loop returns at the first simple pattern that matches; the
\* second loop returns at its first pattern, without testing it; the last
\* statement is reached only with no complex pattern at all
classifyComplexity(text) ==
    LET wordCount == text.wordCount
    IN IF \E i \in 1..Len(simplePatterns) : PatternTest(simplePatterns[i], text)
       THEN IF wordCount < 100 THEN "simple" ELSE "medium"
       ELSE IF Len(complexPatterns) > 0
            THEN IF wordCount > 200 THEN "complex" ELSE "medium"
            ELSE IF wordCount < 30 THEN "simple"
                 ELSE IF wordCount > 150 THEN "complex" ELSE "medium"

InitRouter ==
    /\ InitIdle
    /\ kin \in RouterPrompts

ClassifyComplexityCall ==
    /\ kout = << >>
    /\ kout' = <<classifyComplexity(kin)>>
    /\ ret' = Ret("classifyComplexity", << >>, None, << >>, None)
    /\ UNCHANGED <<cache, stats, defaultTTL, maxSize, now, calls, snapshot, hist, kin>>

NextRouter == ClassifyComplexityCall

SpecRouter == InitRouter /\ [][NextRouter]_vars

\* C25 as stated: a prompt that matches no simple and no complex keyword is
\* classified by its word count alone: 'simple' under 30 words, 'complex'
\* over 150, 'medium' otherwise.
C25_NoKeywordByWordCount ==
    (kout # << >> /\ kin.matches = {}) =>
        kout[1] = IF kin.wordCount < 30 THEN "simple"
                  ELSE IF kin.wordCount > 150 THEN "complex" ELSE "medium"

-----------------------------------------------------------------------------
(* ClaudeCostMonitor.calculateCost (cost-monitor.js).  Prices are dollars per
   million tokens; costs are counted in units of 1e-7 dollars, in which every
   term of the sum is an integer: (t / 1e6) * p dollars is 10 * t * p units and
   (t / 1e6) * p * 0.1 dollars is t * p units. *)

MaxTokens == 5

\* 'Sonnet'
strSonnet == <<83, 111, 110, 110, 101, 116>>
\* 'gpt'
strGpt == <<103, 112, 116>>

CostModels == {strHaiku, strSonnet, strOpus, strGpt}

toLowerCase(str) ==
    [i \in 1..Len(str) |-> IF str[i] >= 65 /\ str[i] <= 90 THEN str[i] + 32 ELSE str[i]]

includes(str, sub) ==
    \E i \in 1..(Len(str) - Len(sub) + 1) : SubSeq(str, i, i + Len(sub) - 1) = sub

costs ==
    [m \in {"haiku-4-5", "sonnet-4-5", "opus-4-5"} |->
        CASE m = "haiku-4-5" -> <<1, 5>>
          [] m = "sonnet-4-5" -> <<3, 15>>
          [] m = "opus-4-5" -> <<5, 25>>]

normalizeModel(model) ==
    LET m == toLowerCase(model)
    IN IF includes(m, SubSeq(strHaiku, 1, 5)) THEN "haiku-4-5"
       ELSE IF includes(m, toLowerCase(strSonnet)) THEN "sonnet-4-5"
       ELSE IF includes(m, strOpus) THEN "opus-4-5"
       ELSE "sonnet-4-5"

calculateCost(model, inputTokens, outputTokens, cacheReads) ==
    LET price == IF normalizeModel(model) \in DOMAIN costs
                 THEN costs[normalizeModel(model)] ELSE <<3, 15>>
        inp == price[1]
        out == price[2]
        inputCost == 10 * (inputTokens - cacheReads) * inp
        cacheReadCost == cacheReads * inp
        outputCost == 10 * outputTokens * out
    IN inputCost + cacheReadCost + outputCost

InitCost ==
    /\ InitIdle
    /\ kin \in [model : CostModels, inputTokens : 0..MaxTokens,
                outputTokens : 0..MaxTokens, cacheReads : 0..MaxTokens]

CalculateCostCall ==
    /\ kout = << >>
    /\ kout' = <<calculateCost(kin.model, kin.inputTokens, kin.outputTokens, kin.cacheReads)>>
    /\ ret' = Ret("calculateCost", << >>, None, << >>, None)
    /\ UNCHANGED <<cache, stats, defaultTTL, maxSize, now, calls, snapshot, hist, kin>>

NextCost == CalculateCostCall

SpecCost == InitCost /\ [][NextCost]_vars

\* C30 as stated: calculateCost returns a cost that is not negative for all
\* token counts that are not negative, cacheReads above inputTokens included.
C30_CostNotNegative ==
    kout # << >> => kout[1] >= 0

====
